---- MODULE Spec2Model ----
(***************************************************************************)
(* Model of the bull put spread backtester (bull_spread_strategy.py) and   *)
(* of the Alpha Vantage fetcher (backtest_alpha_vantage.py).               *)
(*                                                                         *)
(* Units.  Strikes, the strike width, account values, max_risk, credits    *)
(* and current values are whole dollars; bid and ask are cents, so that    *)
(* (bid - ask) * 100 of the source is the integer bid - ask here.  Deltas  *)
(* are hundredths (-0.35 is -35).  max_position_size, profit_target_pct    *)
(* and stop_loss_pct are percents (0.05 is 5).  Quotients the source       *)
(* compares or stores (RSI, profit_pct, total_return) are kept as exact    *)
(* fractions [num, den]; binary floating-point rounding is not modelled.   *)
(* Dates are day numbers; day 0 is a Monday.                               *)
(***************************************************************************)
EXTENDS Integers, Sequences, FiniteSets, TLC

VARIABLES
    qqq_data,        \* self.qqq_data: sequence of price rows [date, close]
    options_data,    \* self.options_data: sequence of option quote rows
    positions,       \* self.positions
    trade_history,   \* self.trade_history
    start_date,      \* run_backtest argument
    end_date,        \* run_backtest argument
    initial_capital, \* run_backtest argument
    account_value,   \* run_backtest local
    current_date,    \* run_backtest local
    results,         \* run_backtest local (the event log)
    pc,              \* position of the run_backtest call
    error,           \* exception that ended the call, "" when none
    returns,         \* values returned by the completed run_backtest calls
                     \* (their 'trade_history' entry is ReturnedTradeHistory)
    fetch            \* state of the data fetcher (backtest_alpha_vantage.py)

bt_vars == <<qqq_data, options_data, positions, trade_history, start_date,
             end_date, initial_capital, account_value, current_date, results,
             pc, error, returns>>

vars == <<qqq_data, options_data, positions, trade_history, start_date,
          end_date, initial_capital, account_value, current_date, results,
          pc, error, returns, fetch>>

-----------------------------------------------------------------------------
(* Bounds of the model *)

\* longest [start_date, end_date] range, in calendar days
MaxWindow == 4

\* run_backtest calls made on one strategy instance
MaxRuns == 2

-----------------------------------------------------------------------------
(* Program constants *)

RSI_WINDOW == 14
SMA_FAST == 20
SMA_SLOW == 50
DELTA_LOW == -35
DELTA_HIGH == -25
SATURDAY == 5

\* strategy_params of the example usage
entry_rsi_threshold == 40
profit_target_pct == 50
stop_loss_pct == 150
width_between_strikes == 5
max_position_size == 5

-----------------------------------------------------------------------------
(* Arithmetic helpers *)

Abs(x) == IF x < 0 THEN -x ELSE x

\* int(a / b) of Python for b # 0: the quotient truncated toward zero
TruncDiv(a, b) ==
    IF (a >= 0) = (b > 0) THEN Abs(a) \div Abs(b) ELSE -(Abs(a) \div Abs(b))

\* a / b compared with c / 100, b # 0 (float comparison of a quotient)
QuotGE(a, b, c) == IF b > 0 THEN a * 100 >= c * b ELSE a * 100 <= c * b
QuotLE(a, b, c) == IF b > 0 THEN a * 100 <= c * b ELSE a * 100 >= c * b

\* datetime.weekday(): 0 is Monday, 5 and 6 the weekend
Weekday(d) == d % 7

NextDaySame(d) == d

\* current_date += timedelta(days=1)
NextDay(d) == d + 1

-----------------------------------------------------------------------------
(* Input data: the price series *)

\* first dates of the simulated ranges: 16 is the 13th bar (RSI window not yet
\* full), 18 a Friday followed by a weekend, 70 a day with every indicator defined
StartDates == {16, 18, 70}

\* weekdays for which the price series has no bar
Holidays == {72}

\* last date the price series covers
LastDate == 70 + MaxWindow

PricePatterns == {"flat", "up", "zigzag", "vee", "peak"}

\* close of the k-th bar of a price pattern
ClosePrice(p, k) ==
    CASE p = "flat"   -> 400
      [] p = "up"     -> 400 + k
      [] p = "zigzag" -> 400 + k + 2 * (k % 2)
      [] p = "vee"    -> IF k <= 40 THEN 400 - k ELSE 360 + 3 * (k - 40)
      [] p = "peak"   -> IF k <= 40 THEN 400 + k ELSE 440 - 3 * (k - 40)

\* dates that carry a price bar, ascending
BarDates ==
    SelectSeq([i \in 1..(LastDate + 1) |-> i - 1],
              LAMBDA d : Weekday(d) < SATURDAY /\ d \notin Holidays)

PriceSeries(p) ==
    [k \in 1..Len(BarDates) |-> [date |-> BarDates[k], close |-> ClosePrice(p, k)]]

-----------------------------------------------------------------------------
(* Indicator Engine: add_indicators.  Floats are "nan", "inf" or a fraction. *)

NaN == [kind |-> "nan", num |-> 0, den |-> 1]
Inf == [kind |-> "inf", num |-> 0, den |-> 1]
Num(n, d) == [kind |-> "num", num |-> n, den |-> d]

\* delta = close.diff(): missing for the first row
HasDelta(i) == i > 1
Delta(i) == qqq_data[i].close - qqq_data[i - 1].close

\* gain = delta.where(delta > 0, 0): a missing delta is not > 0, so it becomes 0
Gain(i) == IF HasDelta(i) /\ Delta(i) > 0 THEN Delta(i) ELSE 0

\* loss = -delta.where(delta < 0, 0)
Loss(i) == IF HasDelta(i) /\ Delta(i) < 0 THEN -Delta(i) ELSE 0

SumGain(lo, hi) ==
    LET f[k \in lo..(hi + 1)] == IF k > hi THEN 0 ELSE Gain(k) + f[k + 1]
    IN  IF lo > hi THEN 0 ELSE f[lo]

SumLoss(lo, hi) ==
    LET f[k \in lo..(hi + 1)] == IF k > hi THEN 0 ELSE Loss(k) + f[k + 1]
    IN  IF lo > hi THEN 0 ELSE f[lo]

SumClose(lo, hi) ==
    LET f[k \in lo..(hi + 1)] == IF k > hi THEN 0 ELSE qqq_data[k].close + f[k + 1]
    IN  IF lo > hi THEN 0 ELSE f[lo]

\* rolling(window=n): defined from the n-th row on
WindowFull(i, n) == i >= n

\* rs = avg_gain / avg_loss (both means over the same 14 rows, so the quotient
\* of the sums); pandas gives inf for x/0 with x > 0 and nan for 0/0
RS(i) ==
    IF ~WindowFull(i, RSI_WINDOW) THEN NaN
    ELSE LET g == SumGain(i - RSI_WINDOW + 1, i)
             l == SumLoss(i - RSI_WINDOW + 1, i)
         IN  IF l # 0 THEN Num(g, l)
             ELSE IF g > 0 THEN Inf ELSE NaN

\* rsi = 100 - (100 / (1 + rs))
RSI(i) ==
    LET rs == RS(i)
    IN  CASE rs.kind = "nan" -> NaN
          [] rs.kind = "inf" -> Num(100, 1)
          [] rs.kind = "num" -> Num(100 * rs.num, rs.num + rs.den)

\* close.rolling(window=n).mean()
SMA(i, n) == IF WindowFull(i, n) THEN Num(SumClose(i - n + 1, i), n) ELSE NaN

\* x < c for a float x and a number c: false when x is nan
FloatLessNum(x, c) ==
    CASE x.kind = "nan" -> FALSE
      [] x.kind = "inf" -> FALSE
      [] x.kind = "num" -> x.num < c * x.den

\* x < y for two floats that are nan or fractions with positive denominators
FloatLess(x, y) ==
    IF x.kind = "nan" \/ y.kind = "nan" THEN FALSE
    ELSE x.num * y.den < y.num * x.den

\* rows of qqq_data whose date is d, as row numbers (qqq_data['date'] == d)
RowsOn(d) == {i \in 1..Len(qqq_data) : qqq_data[i].date = d}

\* .iloc[0] of that selection
FirstRowOn(d) == CHOOSE i \in RowsOn(d) : \A j \in RowsOn(d) : i <= j

-----------------------------------------------------------------------------
(* Input data: the options chain *)

Quote(ty, k, b, a, dl, dte) ==
    [option_type |-> ty, strike |-> k, bid |-> b, ask |-> a, delta |-> dl, dte |-> dte]

ChainNames == {"std", "decayed", "later", "zerorisk", "negrisk", "nolong", "twoshorts"}

\* the quotes of one date, in dataset order (dte: days from date to expiration)
Chain(c) ==
    CASE c = "std" ->
           \* credit 0.80 on a 5 wide spread
           << Quote("put", 100, 120, 130, -30, 0), Quote("put", 95, 35, 40, -10, 0) >>
      [] c = "decayed" ->
           \* both puts nearly worthless, none in the delta band; a call in the band
           << Quote("call", 100, 120, 130, -30, 0), Quote("put", 100, 5, 10, -5, 0),
              Quote("put", 95, 0, 5, -1, 0) >>
      [] c = "later" ->
           \* quotes of the date that expire the next day
           << Quote("put", 100, 120, 130, -30, 1), Quote("put", 95, 35, 40, -10, 1) >>
      [] c = "zerorisk" ->
           \* credit 5.00 equals the width
           << Quote("put", 100, 540, 550, -30, 0), Quote("put", 95, 30, 40, -10, 0) >>
      [] c = "negrisk" ->
           \* credit 6.20 exceeds the width
           << Quote("put", 100, 660, 670, -30, 0), Quote("put", 95, 30, 40, -10, 0) >>
      [] c = "nolong" ->
           \* no put at strike 95, only a call
           << Quote("put", 100, 120, 130, -30, 0), Quote("call", 95, 35, 40, 10, 0) >>
      [] c = "twoshorts" ->
           \* two puts in the delta band; only the second has a put 5 below it
           << Quote("put", 101, 150, 160, -33, 0), Quote("put", 100, 120, 130, -30, 0),
              Quote("put", 95, 35, 40, -10, 0) >>

\* the rows of options_data for date d
ChainRows(c, d) ==
    [k \in 1..Len(Chain(c)) |->
        [date |-> d, expiration_date |-> d + Chain(c)[k].dte,
         option_type |-> Chain(c)[k].option_type, strike |-> Chain(c)[k].strike,
         bid |-> Chain(c)[k].bid, ask |-> Chain(c)[k].ask, delta |-> Chain(c)[k].delta]]

\* dates of [s, e] that carry a price bar
BarDatesIn(s, e) == {d \in s..e : Weekday(d) < SATURDAY /\ d \notin Holidays}

\* the dataset: for each date of f's domain its chain, dates ascending
RECURSIVE OptionsFrom(_, _, _)
OptionsFrom(f, d, e) ==
    IF d > e THEN << >>
    ELSE (IF d \in DOMAIN f THEN ChainRows(f[d], d) ELSE << >>) \o OptionsFrom(f, d + 1, e)

-----------------------------------------------------------------------------
(* Options Chain Filter: filter_0dte_options *)

filter_0dte_options(date) ==
    SelectSeq(options_data, LAMBDA r : r.date = date /\ r.expiration_date = date)

-----------------------------------------------------------------------------
(* Spread Selector: find_bull_put_spread *)

NoTrade == [kind |-> "none"]
Raise(e) == [kind |-> "raise", exc |-> e]

EntryConditionsBothFail(i) ==
    /\ FloatLessNum(RSI(i), entry_rsi_threshold)
    /\ FloatLess(SMA(i, SMA_FAST), SMA(i, SMA_SLOW))

\* current_rsi < entry_rsi_threshold or sma_20 < sma_50
EntryConditionsNotMet(i) ==
    \/ FloatLessNum(RSI(i), entry_rsi_threshold)
    \/ FloatLess(SMA(i, SMA_FAST), SMA(i, SMA_SLOW))

PutsUnfiltered(todays_options) == todays_options

\* todays_options[todays_options['option_type'] == 'put']
Puts(todays_options) == SelectSeq(todays_options, LAMBDA r : r.option_type = "put")

ShortPutCandidatesReversed(puts) ==
    LET band == SelectSeq(puts, LAMBDA r : DELTA_LOW <= r.delta /\ r.delta <= DELTA_HIGH)
    IN  [k \in 1..Len(band) |-> band[Len(band) + 1 - k]]

\* puts[puts['delta'].between(-0.35, -0.25)]: both ends included
ShortPutCandidates(puts) ==
    SelectSeq(puts, LAMBDA r : DELTA_LOW <= r.delta /\ r.delta <= DELTA_HIGH)

\* puts[puts['strike'] == long_strike]
LongPutCandidates(puts, long_strike) ==
    SelectSeq(puts, LAMBDA r : r.strike = long_strike)

\* (short_strike - long_strike) * 100 - (short_put['bid'] - long_put['ask']) * 100
MaxRisk(short_put, long_strike, long_put) ==
    (short_put.strike - long_strike) * 100 - (short_put.bid - long_put.ask)

\* int(max_position / max_risk), max_position = account_value * max_position_size
NumSpreads(account, max_risk) == TruncDiv(account * max_position_size, 100 * max_risk)

\* the numpy quotient x / 0 is inf or nan, and int() of it raises
DivisionError(account) ==
    IF account * max_position_size = 0 THEN "ValueError" ELSE "OverflowError"

\* what `if num_spreads == 0: return None` lets through
Affordable(num_spreads) == num_spreads # 0

find_bull_put_spread(date, account) ==
    IF RowsOn(date) = {} THEN Raise("IndexError")
    ELSE IF EntryConditionsNotMet(FirstRowOn(date)) THEN NoTrade
    ELSE LET todays_options == filter_0dte_options(date)
             puts == Puts(todays_options)
             short_put_candidates == ShortPutCandidates(puts)
         IN  IF todays_options = << >> THEN NoTrade
             ELSE IF short_put_candidates = << >> THEN NoTrade
             ELSE LET short_put == short_put_candidates[1]
                      long_strike == short_put.strike - width_between_strikes
                      long_put_candidates == LongPutCandidates(puts, long_strike)
                  IN  IF long_put_candidates = << >> THEN NoTrade
                      ELSE LET long_put == long_put_candidates[1]
                               max_risk == MaxRisk(short_put, long_strike, long_put)
                           IN  IF max_risk = 0 THEN Raise(DivisionError(account))
                               ELSE IF ~Affordable(NumSpreads(account, max_risk))
                                    THEN NoTrade
                               ELSE [kind |-> "trade",
                                     short_put |-> short_put,
                                     long_put |-> long_put,
                                     num_spreads |-> NumSpreads(account, max_risk),
                                     max_risk |-> max_risk,
                                     max_profit |-> (short_put.bid - long_put.ask)
                                                    * NumSpreads(account, max_risk)]

-----------------------------------------------------------------------------
(* Position Valuation: calculate_current_value *)

NoValue == [known |-> FALSE, value |-> 0]

LegQuotesAnyType(current_options_data, strike) ==
    SelectSeq(current_options_data, LAMBDA r : r.strike = strike)

\* rows with the leg's strike and option_type 'put'
LegQuotes(current_options_data, strike) ==
    SelectSeq(current_options_data,
              LAMBDA r : r.strike = strike /\ r.option_type = "put")

calculate_current_value(position, current_options_data) ==
    LET short_put_current == LegQuotes(current_options_data, position.short_put.strike)
        long_put_current == LegQuotes(current_options_data, position.long_put.strike)
    IN  IF short_put_current = << >> \/ long_put_current = << >> THEN NoValue
        ELSE [known |-> TRUE,
              value |-> position.initial_credit
                        - (short_put_current[1].ask - long_put_current[1].bid)
                          * position.num_spreads]

-----------------------------------------------------------------------------
(* Backtest Driver: run_backtest *)

ExitConditionNoStop(current_value, position, date) ==
    \/ QuotGE(current_value, position.max_risk, profit_target_pct)
    \/ date = position.expiry_date

\* profit_pct >= profit_target_pct or profit_pct <= -stop_loss_pct
\* or current_date == position['expiry_date'], profit_pct = current_value / max_risk
ExitCondition(current_value, position, date) ==
    \/ QuotGE(current_value, position.max_risk, profit_target_pct)
    \/ QuotLE(current_value, position.max_risk, -stop_loss_pct)
    \/ date = position.expiry_date

TradeRecord(position, date, current_value) ==
    [entry_date |-> position.entry_date,
     exit_date |-> date,
     profit_loss |-> current_value,
     profit_pct |-> [num |-> current_value, den |-> position.max_risk]]

\* list.remove(x): the list without its first element equal to x
RECURSIVE RemoveFirst(_, _)
RemoveFirst(s, x) ==
    IF s = << >> THEN << >>
    ELSE IF Head(s) = x THEN Tail(s)
    ELSE <<Head(s)>> \o RemoveFirst(Tail(s), x)

RealizedNothing(current_value) == 0

\* the value a day's management adds to the account when it closes a position
Realized(current_value) == current_value

\* `for position in self.positions:` with the body's removals: the iterator
\* reads index i of the list as it is when the iteration reaches it
RECURSIVE ManageLoop(_, _, _, _, _)
ManageLoop(i, ps, account, history, date) ==
    IF i > Len(ps) THEN [positions |-> ps, account_value |-> account,
                         trade_history |-> history]
    ELSE LET position == ps[i]
             current_options == filter_0dte_options(date)
             cv == calculate_current_value(position, current_options)
         IN  IF current_options = << >> THEN ManageLoop(i + 1, ps, account, history, date)
             ELSE IF ~cv.known THEN ManageLoop(i + 1, ps, account, history, date)
             ELSE IF ExitCondition(cv.value, position, date)
                  THEN ManageLoop(i + 1, RemoveFirst(ps, position),
                                  account + Realized(cv.value),
                                  Append(history, TradeRecord(position, date, cv.value)),
                                  date)
             ELSE ManageLoop(i + 1, ps, account, history, date)

MayEnterAlways == TRUE

\* `if not self.positions:`
MayEnter == positions = << >>

\* initial_credit = (short bid - long ask) * 100 * num_spreads
InitialCredit(trade) == (trade.short_put.bid - trade.long_put.ask) * trade.num_spreads

NewPosition(trade, date) ==
    [entry_date |-> date,
     expiry_date |-> date,
     short_put |-> trade.short_put,
     long_put |-> trade.long_put,
     num_spreads |-> trade.num_spreads,
     initial_credit |-> InitialCredit(trade),
     max_risk |-> trade.max_risk]

EntryEvent(position, date, account) ==
    [date |-> date, account_value |-> account, action |-> "ENTRY",
     trade_details |-> position]

Wins(history) == Cardinality({k \in 1..Len(history) : history[k].profit_loss > 0})

PerformanceCountingOpen(history, account, capital) ==
    [total_return |-> [num |-> (account - capital) * 100, den |-> capital],
     win_rate |-> [num |-> Wins(history) * 100, den |-> Len(history) + Len(positions)],
     average_return |-> [k \in 1..Len(history) |-> history[k].profit_pct],
     total_trades |-> Len(history) + Len(positions)]

\* the performance dictionary; the quotients are kept as [num, den]
Performance(history, account, capital) ==
    IF history # << >>
    THEN [total_return |-> [num |-> (account - capital) * 100, den |-> capital],
          win_rate |-> [num |-> Wins(history) * 100, den |-> Len(history)],
          average_return |-> [k \in 1..Len(history) |-> history[k].profit_pct],
          total_trades |-> Len(history)]
    ELSE [total_return |-> [num |-> 0, den |-> 1],
          win_rate |-> [num |-> 0, den |-> 1],
          average_return |-> << >>,
          total_trades |-> 0]

\* 'trade_history': self.trade_history -- every returned dictionary holds the
\* instance's own list, not a copy, so it reads as the list's current content
ReturnedTradeHistory(k) == trade_history

FetchIdle ==
    [pc |-> "idle", interval |-> "", api_key |-> "", output_size |-> "",
     requests |-> << >>,
     response |-> [status |-> 0, error_message |-> FALSE, series_key |-> "",
                   rows |-> << >>],
     raised |-> [type |-> "", message |-> ""], returned |-> FALSE, df |-> << >>]

Init ==
    /\ \E p \in PricePatterns : qqq_data = PriceSeries(p)
    /\ start_date \in StartDates
    /\ \E n \in 0..MaxWindow : end_date = start_date + n - 1
    /\ initial_capital \in {100000, 0}
    /\ \E f \in [BarDatesIn(start_date, end_date) -> ChainNames] :
          options_data = OptionsFrom(f, start_date, end_date)
    /\ positions = << >>
    /\ trade_history = << >>
    /\ account_value = 0
    /\ current_date = 0
    /\ results = << >>
    /\ pc = "idle"
    /\ error = ""
    /\ returns = << >>
    /\ fetch = FetchIdle

\* the call: lines 137-139
CallRunBacktest ==
    /\ pc \in {"idle", "done"}
    /\ Len(returns) < MaxRuns
    /\ account_value' = initial_capital
    /\ current_date' = start_date
    /\ results' = << >>
    /\ pc' = "loop"
    /\ UNCHANGED <<qqq_data, options_data, positions, trade_history, start_date,
                   end_date, initial_capital, error, returns, fetch>>

\* `while current_date <= end_date` fails: performance and return
LoopExit ==
    /\ pc = "loop"
    /\ ~(current_date <= end_date)
    /\ returns' = Append(returns,
          [results |-> results,
           performance |-> Performance(trade_history, account_value, initial_capital),
           final_account |-> account_value])
    /\ pc' = "done"
    /\ UNCHANGED <<qqq_data, options_data, positions, trade_history, start_date,
                   end_date, initial_capital, account_value, current_date, results,
                   error, fetch>>

SkipWeekend ==
    /\ pc = "loop"
    /\ current_date <= end_date
    /\ Weekday(current_date) >= SATURDAY
    /\ current_date' = NextDay(current_date)
    /\ UNCHANGED <<qqq_data, options_data, positions, trade_history, start_date,
                   end_date, initial_capital, account_value, results, pc, error,
                   returns, fetch>>

SkipNoData ==
    /\ pc = "loop"
    /\ current_date <= end_date
    /\ Weekday(current_date) < SATURDAY
    /\ RowsOn(current_date) = {}
    /\ current_date' = NextDay(current_date)
    /\ UNCHANGED <<qqq_data, options_data, positions, trade_history, start_date,
                   end_date, initial_capital, account_value, results, pc, error,
                   returns, fetch>>

\* lines 153-178: the management of the open positions
ManagePositions ==
    /\ pc = "loop"
    /\ current_date <= end_date
    /\ Weekday(current_date) < SATURDAY
    /\ RowsOn(current_date) # {}
    /\ LET r == ManageLoop(1, positions, account_value, trade_history, current_date)
       IN  /\ positions' = r.positions
           /\ account_value' = r.account_value
           /\ trade_history' = r.trade_history
    /\ pc' = "entry"
    /\ UNCHANGED <<qqq_data, options_data, start_date, end_date, initial_capital,
                   current_date, results, error, returns, fetch>>

\* lines 180-204 when a position is open: no entry, next day
EntrySkipped ==
    /\ pc = "entry"
    /\ ~MayEnter
    /\ current_date' = NextDay(current_date)
    /\ pc' = "loop"
    /\ UNCHANGED <<qqq_data, options_data, positions, trade_history, start_date,
                   end_date, initial_capital, account_value, results, error,
                   returns, fetch>>

\* lines 180-204 when the selector returns None
NoEntry ==
    /\ pc = "entry"
    /\ MayEnter
    /\ find_bull_put_spread(current_date, account_value).kind = "none"
    /\ current_date' = NextDay(current_date)
    /\ pc' = "loop"
    /\ UNCHANGED <<qqq_data, options_data, positions, trade_history, start_date,
                   end_date, initial_capital, account_value, results, error,
                   returns, fetch>>

EnterTradeStale ==
    /\ pc = "entry"
    /\ MayEnter
    /\ \E trade \in {find_bull_put_spread(current_date, initial_capital)} :
           /\ trade.kind = "trade"
           /\ positions' = Append(positions, NewPosition(trade, current_date))
           /\ results' = Append(results,
                 EntryEvent(NewPosition(trade, current_date), current_date,
                            initial_capital))
    /\ current_date' = NextDay(current_date)
    /\ pc' = "loop"
    /\ UNCHANGED <<qqq_data, options_data, trade_history, start_date, end_date,
                   initial_capital, account_value, error, returns, fetch>>

\* lines 180-204 when the selector returns a trade
EnterTrade ==
    /\ pc = "entry"
    /\ MayEnter
    /\ \E trade \in {find_bull_put_spread(current_date, account_value)} :
           /\ trade.kind = "trade"
           /\ positions' = Append(positions, NewPosition(trade, current_date))
           /\ results' = Append(results,
                 EntryEvent(NewPosition(trade, current_date), current_date,
                            account_value))
    /\ current_date' = NextDay(current_date)
    /\ pc' = "loop"
    /\ UNCHANGED <<qqq_data, options_data, trade_history, start_date, end_date,
                   initial_capital, account_value, error, returns, fetch>>

\* the selector raises: the exception leaves run_backtest
EntryRaises ==
    /\ pc = "entry"
    /\ MayEnter
    /\ \E trade \in {find_bull_put_spread(current_date, account_value)} :
           /\ trade.kind = "raise"
           /\ error' = trade.exc
    /\ pc' = "error"
    /\ UNCHANGED <<qqq_data, options_data, positions, trade_history, start_date,
                   end_date, initial_capital, account_value, current_date, results,
                   returns, fetch>>

Next ==
    \/ CallRunBacktest
    \/ LoopExit
    \/ SkipWeekend
    \/ SkipNoData
    \/ ManagePositions
    \/ EntrySkipped
    \/ NoEntry
    \/ EnterTrade
    \/ EntryRaises

Spec == Init /\ [][Next]_vars

\* option chains of the runs followed to their end
LiveChains == {"std", "decayed", "zerorisk"}

\* a strategy object on the zigzag series with the example capital
InitLive ==
    /\ Init
    /\ qqq_data = PriceSeries("zigzag")
    /\ initial_capital = 100000
    /\ \E f \in [BarDatesIn(start_date, end_date) -> LiveChains] :
          options_data = OptionsFrom(f, start_date, end_date)

\* the interpreter keeps executing the call: some step is taken while one is possible
SpecLive == InitLive /\ [][Next]_vars /\ WF_vars(Next)

-----------------------------------------------------------------------------
(* Properties of run_backtest *)

\* C1: at every point of a run self.positions holds at most one position, and
\* the list grows only in a step that found it empty.
C1_AtMostOnePosition ==
    /\ [](Len(positions) <= 1)
    /\ [][Len(positions') > Len(positions) =>
            /\ positions = << >>
            /\ pc = "entry"
            /\ Len(positions') = 1]_vars

\* a position is open when a later day's entry step is reached
C1_Witness ==
    /\ pc = "entry"
    /\ Len(positions) = 1
    /\ positions[1].entry_date < current_date

\* C2: once the run has finished processing a day, no position whose
\* expiry_date is that day or earlier is still open, and every TradeRecord
\* has its exit on the position's expiry date (the entry date).
C2_ClosedByExpiry ==
    /\ pc \in {"loop", "done"} =>
          \A k \in 1..Len(positions) : positions[k].expiry_date >= current_date
    /\ \A k \in 1..Len(trade_history) :
          trade_history[k].exit_date = trade_history[k].entry_date

\* C3: every candidate the selector returned (every opened position) has
\* short strike - long strike = width, max_risk > 0 and num_spreads >= 1,
\* and the selector rejects without raising.
C3_CandidateSound ==
    /\ \A k \in 1..Len(positions) :
          /\ positions[k].short_put.strike - positions[k].long_put.strike
                = width_between_strikes
          /\ positions[k].max_risk > 0
          /\ positions[k].num_spreads >= 1
    /\ pc = "entry" => find_bull_put_spread(current_date, account_value).kind # "raise"

\* C4: no position is entered on a day whose RSI is not a number.
C4_NoEntryOnUndefinedRsi ==
    \A k \in 1..Len(positions) :
        RSI(FirstRowOn(positions[k].entry_date)).kind # "nan"

\* C5: run_backtest never ends in an exception.
C5_NeverAnError == pc # "error"

\* floor(a / b) for b # 0
FloorDiv(a, b) == IF b > 0 THEN a \div b ELSE (-a) \div (-b)

\* C6: every opened position was sized from the account value of its entry:
\* net_credit = short bid - long ask, max_risk = (width - net_credit) * 100,
\* contract_count = floor(account_value * max_position_size / max_risk) and
\* initial_credit = net_credit * 100 * contract_count; a count of 0 opens nothing.
C6_Sizing ==
    \A k \in 1..Len(results) :
        LET t == results[k].trade_details
            net_credit == t.short_put.bid - t.long_put.ask
            max_risk == width_between_strikes * 100 - net_credit
        IN  /\ t.max_risk = max_risk
            /\ max_risk # 0
            /\ t.num_spreads =
                  FloorDiv(results[k].account_value * max_position_size, 100 * max_risk)
            /\ t.num_spreads # 0
            /\ t.initial_credit = net_credit * t.num_spreads

\* the day's quotes of one leg of the open position
C7_LegToday(strike) ==
    SelectSeq(options_data,
              LAMBDA r : /\ r.date = current_date
                         /\ r.expiration_date = current_date
                         /\ r.option_type = "put"
                         /\ r.strike = strike)

\* the open position has a quote for both legs today
C7_Determinate ==
    /\ positions # << >>
    /\ C7_LegToday(positions[1].short_put.strike) # << >>
    /\ C7_LegToday(positions[1].long_put.strike) # << >>

\* current value of the open position at today's quotes
C7_CurrentValue ==
    positions[1].initial_credit
    - (C7_LegToday(positions[1].short_put.strike)[1].ask
       - C7_LegToday(positions[1].long_put.strike)[1].bid) * positions[1].num_spreads

\* current_value / max_risk reaches the profit target or the stop loss
C7_TargetOrStopHit ==
    \/ QuotGE(C7_CurrentValue, positions[1].max_risk, profit_target_pct)
    \/ QuotLE(C7_CurrentValue, positions[1].max_risk, -stop_loss_pct)

C8_NoBandPut ==
    \A k \in 1..Len(options_data) :
        ~ /\ options_data[k].date = current_date
          /\ options_data[k].expiration_date = current_date
          /\ options_data[k].option_type = "put"
          /\ options_data[k].delta >= -35
          /\ options_data[k].delta <= -25

\* C8: on a day without a put in the delta band the selector returns no
\* trade, and the entry step changes neither account_value, the active set,
\* trade_history nor the event log.
C8_NoBandNoTrade ==
    /\ []((pc = "entry" /\ C8_NoBandPut) =>
            find_bull_put_spread(current_date, account_value) = NoTrade)
    /\ [][(pc = "entry" /\ C8_NoBandPut) =>
            UNCHANGED <<account_value, positions, trade_history, results>>]_vars

\* the entry step runs the selector past the gate and the chain check on a day
\* whose chain has quotes, none of them a put in the band
C8_Witness ==
    /\ pc = "entry"
    /\ MayEnter
    /\ C8_NoBandPut
    /\ ~EntryConditionsNotMet(FirstRowOn(current_date))
    /\ filter_0dte_options(current_date) # << >>
    /\ \E k \in 1..Len(options_data) :
          /\ options_data[k].date = current_date
          /\ options_data[k].delta >= -35
          /\ options_data[k].delta <= -25
    /\ initial_capital > 0

\* C9: two run_backtest calls with the same data and arguments return the
\* same TradeRecord sequence and the same final account value.
C9_SameResultTwice ==
    Len(returns) >= 2 =>
        /\ ReturnedTradeHistory(1) = ReturnedTradeHistory(2)
        /\ returns[1].final_account = returns[2].final_account

\* a leg of the open position has no quote in today's same-day-expiry chain
C11_LegMissing ==
    /\ positions # << >>
    /\ \/ C7_LegToday(positions[1].short_put.strike) = << >>
       \/ C7_LegToday(positions[1].long_put.strike) = << >>

\* C11: a management step that finds a leg of the open position without a
\* quote in the day's same-day-expiry chain (or that chain empty) leaves the
\* position open and account_value and trade_history as they were.
C11_MissingQuoteSkips ==
    [][(pc = "loop" /\ pc' = "entry" /\ C11_LegMissing) =>
          UNCHANGED <<positions, account_value, trade_history>>]_vars

\* management has run on a day after the entry whose chain has quotes, among
\* them the short leg's, but none for the long leg; the position is still open
C11_Witness ==
    /\ pc = "entry"
    /\ positions # << >>
    /\ positions[1].entry_date < current_date
    /\ C7_LegToday(positions[1].short_put.strike) # << >>
    /\ C7_LegToday(positions[1].long_put.strike) = << >>

\* today's rsi, sma_20 and sma_50 are all numbers
C12_Defined ==
    /\ RowsOn(current_date) # {}
    /\ RSI(FirstRowOn(current_date)).kind = "num"
    /\ SMA(FirstRowOn(current_date), 20).kind = "num"
    /\ SMA(FirstRowOn(current_date), 50).kind = "num"

\* rsi >= entry_rsi_threshold
C12_RsiPasses ==
    LET rsi == RSI(FirstRowOn(current_date))
    IN  rsi.num >= 40 * rsi.den

\* sma_20 >= sma_50
C12_SmaPasses ==
    LET fast == SMA(FirstRowOn(current_date), 20)
        slow == SMA(FirstRowOn(current_date), 50)
    IN  fast.num * slow.den >= slow.num * fast.den

C13_PutToday(k) ==
    /\ options_data[k].date = current_date
    /\ options_data[k].expiration_date = current_date
    /\ options_data[k].option_type = "put"

\* row k is such a put with delta in [-0.35, -0.25]
C13_BandPut(k) ==
    /\ C13_PutToday(k)
    /\ options_data[k].delta >= -35
    /\ options_data[k].delta <= -25

\* today's chain has a put at the strike 5 below row k's
C13_HasLongLeg(k) ==
    \E j \in 1..Len(options_data) :
        C13_PutToday(j) /\ options_data[j].strike = options_data[k].strike - 5

\* row k is the first put in the band, in dataset order
C13_FirstBandPut(k) ==
    /\ k \in 1..Len(options_data)
    /\ C13_BandPut(k)
    /\ \A j \in 1..(k - 1) : ~C13_BandPut(j)

\* C13: an opened position's short leg is the first in-band put of the day's
\* same-day-expiry chain in dataset order and its long leg a put of that chain
\* at exactly short strike - width; when that first in-band put has no such
\* long leg the selector returns no trade, whatever the later in-band puts.
C13_LegSelection ==
    /\ []((pc = "entry" /\ \E k \in 1..Len(options_data) :
                              C13_FirstBandPut(k) /\ ~C13_HasLongLeg(k)) =>
            find_bull_put_spread(current_date, account_value) = NoTrade)
    /\ [][Len(positions') > Len(positions) =>
            LET p == positions'[Len(positions')]
            IN  /\ \E k \in 1..Len(options_data) :
                      C13_FirstBandPut(k) /\ p.short_put = options_data[k]
                /\ \E j \in 1..Len(options_data) :
                      C13_PutToday(j) /\ p.long_put = options_data[j]
                /\ p.long_put.strike = p.short_put.strike - 5]_vars

\* the selector gets past the gate on a day whose first in-band put has no
\* long leg while a later in-band put has one
C13_Witness ==
    /\ pc = "entry"
    /\ MayEnter
    /\ initial_capital > 0
    /\ ~EntryConditionsNotMet(FirstRowOn(current_date))
    /\ \E k, m \in 1..Len(options_data) :
          /\ C13_FirstBandPut(k)
          /\ ~C13_HasLongLeg(k)
          /\ m > k
          /\ C13_BandPut(m)
          /\ C13_HasLongLeg(m)

\* the first date after the range, or start_date when the range is empty
C14_LastDate == IF end_date + 1 > start_date THEN end_date + 1 ELSE start_date

\* C14: every call of run_backtest comes to its return having examined every
\* date of [start_date, end_date]: the loop is left with current_date on the
\* first date after the range (on start_date when the range is empty).
C14_VisitsEveryDate ==
    (pc = "loop") ~> (pc = "done" /\ current_date = C14_LastDate)

\* what the loop does guarantee (C14 without the exception of C5): every
\* iteration (weekend skip, missing-data skip, or a processed day) moves
\* current_date forward by exactly one day, the dates are examined from
\* start_date upward without passing end_date + 1, the loop is left as soon as
\* current_date > end_date (at once when start_date > end_date), and every
\* call comes to an end, by its return or by the exception.
C14_LoopTerminates ==
    /\ [][/\ (pc = "loop" /\ pc' = "loop") =>
                (current_date <= end_date /\ current_date' = current_date + 1)
          /\ (pc = "loop" /\ pc' = "entry") =>
                (current_date <= end_date /\ current_date' = current_date)
          /\ (pc = "entry" /\ pc' = "loop") => current_date' = current_date + 1
          /\ (pc = "loop" /\ current_date > end_date) => pc' = "done"
          /\ (pc = "loop" /\ pc' = "done") =>
                (current_date = C14_LastDate /\ current_date' = current_date)]_vars
    /\ [](pc \in {"loop", "entry"} =>
            (start_date <= current_date /\ current_date <= C14_LastDate))
    /\ (pc = "loop") ~> (pc \in {"done", "error"})

\* a call has returned after a weekend skip, a missing-data skip or a processed
\* day took it over the whole of a range of several days
C14_Witness ==
    /\ pc = "done"
    /\ end_date >= start_date + 2
    /\ current_date = end_date + 1

\* a call with start_date > end_date has returned without an iteration
C14_EmptyRange == pc = "done" /\ start_date > end_date /\ current_date = start_date

\* a call has been ended by the exception of the sizing division before the
\* last date of its range
C14_EndedEarly == pc = "error" /\ current_date < end_date

\* the sum of profit_loss over the TradeRecords of a history
RECURSIVE C15_SumProfitLoss(_)
C15_SumProfitLoss(history) ==
    IF history = << >> THEN 0
    ELSE Head(history).profit_loss + C15_SumProfitLoss(Tail(history))

\* the loop is about to end with a position still open
C15_OpenAtEnd == pc = "loop" /\ current_date > end_date /\ positions # << >>

\* C15: when the loop ends with a position open, the return leaves the position
\* open and writes no TradeRecord for it; final_account is the account_value of
\* the closes alone (initial_capital plus the profit_loss of the TradeRecords on
\* a fresh instance), the performance figures are those of the TradeRecords,
\* and total_trades is the number of TradeRecords.
C15_OpenPositionDropped ==
    [][(C15_OpenAtEnd /\ pc' = "done") =>
          LET r == returns'[Len(returns')]
          IN  /\ positions' = positions
              /\ trade_history' = trade_history
              /\ account_value' = account_value
              /\ r.final_account = account_value
              /\ r.performance.total_trades = Len(trade_history)
              /\ Len(r.performance.average_return) = Len(trade_history)
              /\ \A k \in 1..Len(trade_history) :
                    r.performance.average_return[k] = trade_history[k].profit_pct
              /\ r.performance.win_rate.num = 100 * Wins(trade_history)
              /\ r.performance.total_return.num =
                    (IF trade_history = << >> THEN 0
                     ELSE 100 * (account_value - initial_capital))
              /\ (returns = << >>) =>
                    /\ r.final_account =
                          initial_capital + C15_SumProfitLoss(trade_history)
                    /\ \A i \in 1..Len(positions) : \A k \in 1..Len(trade_history) :
                          trade_history[k].entry_date # positions[i].entry_date]_vars

\* a first call has returned with a closed trade in the history and a later
\* position still open
C15_Witness ==
    /\ pc = "done"
    /\ Len(returns) = 1
    /\ positions # << >>
    /\ trade_history # << >>
    /\ returns[1].performance.total_trades = 1

\* the profit_loss of the TradeRecords of a history from index k on
RECURSIVE C16_RealizedFrom(_, _)
C16_RealizedFrom(history, k) ==
    IF k > Len(history) THEN 0
    ELSE history[k].profit_loss + C16_RealizedFrom(history, k + 1)

\* C16: the management step of a day keeps the date, adds the current_value of
\* every position it closes to account_value and hands over to the entry step
\* of the same day; an entry made there is recorded on that date with that
\* account_value and is sized from it.
C16_ManagementBeforeEntry ==
    [][/\ (pc = "loop" /\ pc' = "entry") =>
             /\ current_date' = current_date
             /\ results' = results
             /\ Len(trade_history') >= Len(trade_history)
             /\ account_value' = account_value
                   + C16_RealizedFrom(trade_history', Len(trade_history) + 1)
             /\ \A k \in (Len(trade_history) + 1)..Len(trade_history') :
                   trade_history'[k].exit_date = current_date
       /\ (pc = "entry" /\ Len(results') > Len(results)) =>
             LET e == results'[Len(results')]
             IN  /\ e.action = "ENTRY"
                 /\ e.date = current_date
                 /\ e.account_value = account_value
                 /\ account_value' = account_value
                 /\ e.trade_details.entry_date = current_date
                 /\ e.trade_details.num_spreads =
                       NumSpreads(account_value, e.trade_details.max_risk)
                 /\ positions' = << e.trade_details >>]_vars

\* on a first call a position was closed on a day with a gain or loss and the
\* entry of that same day was made with the account that includes it
C16_Witness ==
    /\ Len(returns) = 0
    /\ pc = "loop"
    /\ results # << >>
    /\ trade_history # << >>
    /\ LET e == results[Len(results)]
           t == trade_history[Len(trade_history)]
       IN  /\ e.date = t.exit_date
           /\ current_date = e.date + 1
           /\ t.profit_loss # 0
           /\ e.account_value = initial_capital + C16_RealizedFrom(trade_history, 1)
           /\ e.trade_details.num_spreads # NumSpreads(initial_capital, e.trade_details.max_risk)

\* the first run_backtest call on the instance is under way or has returned
C18_FirstCall ==
    \/ Len(returns) = 0 /\ pc \in {"loop", "entry", "error"}
    \/ Len(returns) = 1 /\ pc = "done"

\* C18: throughout the first call on a fresh instance account_value is
\* initial_capital plus the profit_loss of the TradeRecords written so far;
\* the entry step changes neither account_value nor trade_history, and inside
\* a call account_value changes only in a management step that writes a
\* TradeRecord.
C18_AccountConservation ==
    /\ [](C18_FirstCall =>
            account_value = initial_capital + C15_SumProfitLoss(trade_history))
    /\ [][/\ pc = "entry" =>
                (account_value' = account_value /\ trade_history' = trade_history)
          /\ (pc \in {"loop", "entry"} /\ account_value' # account_value) =>
                /\ pc = "loop" /\ pc' = "entry"
                /\ Len(trade_history') > Len(trade_history)
                /\ account_value' = account_value
                      + C16_RealizedFrom(trade_history', Len(trade_history) + 1)]_vars

\* in the first call a position was closed with a loss or gain and a new
\* position was opened afterwards
C18_Witness ==
    /\ Len(returns) = 0
    /\ pc = "loop"
    /\ trade_history # << >>
    /\ positions # << >>
    /\ account_value # initial_capital
    /\ account_value = initial_capital + C15_SumProfitLoss(trade_history)

\* the management step is about to evaluate the open positions
C19_Managing ==
    /\ pc = "loop"
    /\ current_date <= end_date
    /\ Weekday(current_date) < SATURDAY
    /\ RowsOn(current_date) # {}

\* every TradeRecord ends after its entry and every position met by the
\* management step has its expiry behind it
C19_Dates ==
    /\ \A k \in 1..Len(trade_history) :
          trade_history[k].exit_date > trade_history[k].entry_date
    /\ C19_Managing =>
          \A i \in 1..Len(positions) : current_date > positions[i].expiry_date

\* C19: every TradeRecord has exit_date strictly later than entry_date, and
\* whenever the management step evaluates an open position current_date is
\* strictly later than the position's expiry_date.
C19_ExitAfterEntry == C19_Dates

\* what holds of the first call on an instance
C19_FirstCallDates == (Len(returns) = 0 \/ (Len(returns) = 1 /\ pc = "done")) => C19_Dates

\* a second call closed the position left by the first on its expiry date
C19_ClosedOnExpiryDate ==
    /\ Len(returns) >= 1
    /\ \E k \in 1..Len(trade_history) :
          trade_history[k].exit_date = trade_history[k].entry_date

\* a later call on the instance has just begun
C20_LaterCallBegins ==
    /\ Len(returns) >= 1
    /\ pc = "loop"
    /\ current_date = start_date
    /\ results = << >>

\* C20: a second run_backtest call on the instance begins with no active
\* position, and the trade_history it returns holds only TradeRecords of
\* positions whose ENTRY event is among the events of that call.
C20_CallsIndependent ==
    /\ C20_LaterCallBegins => positions = << >>
    /\ (Len(returns) >= 2 /\ pc = "done") =>
          /\ Len(ReturnedTradeHistory(Len(returns))) <= Len(results)
          /\ \A k \in 1..Len(ReturnedTradeHistory(Len(returns))) :
                \E j \in 1..Len(results) :
                    results[j].trade_details.entry_date =
                        ReturnedTradeHistory(Len(returns))[k].entry_date

\* a second call has begun with the position the first call left open
C20_LeftOverPosition == C20_LaterCallBegins /\ positions # << >>

\* a second call has returned more TradeRecords than it made entries
C20_ForeignTradeRecord ==
    /\ Len(returns) = 2
    /\ pc = "done"
    /\ Len(ReturnedTradeHistory(2)) > Len(results)

-----------------------------------------------------------------------------
(* Price-data provider: get_intraday_data (backtest_alpha_vantage.py) *)

\* most rows a response's time series carries
MaxRows == 2

HTTP_OK == 200

Intervals == {"1min", "5min"}

\* time_series_key = f"Time Series ({interval})"
TimeSeriesKey(interval) == interval

\* the ways to list some of the timestamps 1..MaxRows, in any order
RowLists ==
    {r \in UNION {[1..n -> 1..MaxRows] : n \in 0..MaxRows} :
        \A i, j \in DOMAIN r : i # j => r[i] # r[j]}

\* a response: its status and, read as JSON, whether it has an 'Error Message'
\* entry, which time series key it has ("" for none) and that entry's rows
Responses ==
    [status : {HTTP_OK, 404, 503}, error_message : BOOLEAN,
     series_key : {""} \cup {TimeSeriesKey(i) : i \in Intervals}, rows : RowLists]

NoResponse == [status |-> 0, error_message |-> FALSE, series_key |-> "", rows |-> << >>]
NoException == [type |-> "", message |-> ""]

\* df.sort_values('timestamp'): the rows in ascending order
RECURSIVE SortRows(_)
SortRows(rows) ==
    IF rows = << >> THEN << >>
    ELSE LET m == CHOOSE i \in DOMAIN rows : \A j \in DOMAIN rows : rows[i] <= rows[j]
         IN  <<rows[m]>> \o SortRows(SubSeq(rows, 1, m - 1) \o SubSeq(rows, m + 1, Len(rows)))

StatusNeverFailed(response) == FALSE

\* response.status_code != 200
StatusFailed(response) == response.status # HTTP_OK

\* 'Error Message' in data
HasErrorMessage(response) == response.error_message

\* time_series_key not in data
KeyMissing(response, interval) == response.series_key # TimeSeriesKey(interval)

InitFetch ==
    /\ qqq_data = << >>
    /\ options_data = << >>
    /\ positions = << >>
    /\ trade_history = << >>
    /\ start_date = 0
    /\ end_date = 0
    /\ initial_capital = 0
    /\ account_value = 0
    /\ current_date = 0
    /\ results = << >>
    /\ pc = "idle"
    /\ error = ""
    /\ returns = << >>
    /\ fetch = FetchIdle

\* the call get_intraday_data(symbol, interval, api_key, output_size)
GetIntradayData ==
    /\ fetch.pc = "idle"
    /\ \E i \in Intervals, key \in {"none", "KEY"}, size \in {"compact", "full"} :
          fetch' = [pc |-> "called", interval |-> i, api_key |-> key,
                    output_size |-> size, requests |-> << >>,
                    response |-> NoResponse, raised |-> NoException,
                    returned |-> FALSE, df |-> << >>]
    /\ UNCHANGED bt_vars

\* lines 20-21
RaiseKeyRequired ==
    /\ fetch.pc = "called"
    /\ fetch.api_key = "none"
    /\ fetch' = [fetch EXCEPT !.pc = "raised",
                              !.raised = [type |-> "ValueError",
                                          message |-> "API key is required"]]
    /\ UNCHANGED bt_vars

\* lines 23-34: requests.get(base_url, params=params)
SendRequest ==
    /\ fetch.pc = "called"
    /\ fetch.api_key # "none"
    /\ fetch' = [fetch EXCEPT !.pc = "awaiting",
                              !.requests = Append(@,
                                  [function |-> "TIME_SERIES_INTRADAY",
                                   interval |-> fetch.interval,
                                   outputsize |-> fetch.output_size])]
    /\ UNCHANGED bt_vars

\* the service answers
ReceiveResponse ==
    /\ fetch.pc = "awaiting"
    /\ \E r \in Responses : fetch' = [fetch EXCEPT !.pc = "received", !.response = r]
    /\ UNCHANGED bt_vars

\* lines 36-37
RaiseStatus ==
    /\ fetch.pc = "received"
    /\ StatusFailed(fetch.response)
    /\ fetch' = [fetch EXCEPT !.pc = "raised",
                              !.raised = [type |-> "Exception",
                                          message |-> "API request failed with status code"]]
    /\ UNCHANGED bt_vars

\* lines 39-43
RaiseErrorMessage ==
    /\ fetch.pc = "received"
    /\ ~StatusFailed(fetch.response)
    /\ HasErrorMessage(fetch.response)
    /\ fetch' = [fetch EXCEPT !.pc = "raised",
                              !.raised = [type |-> "Exception",
                                          message |-> "API returned an error"]]
    /\ UNCHANGED bt_vars

\* lines 45-49
RaiseKeyNotFound ==
    /\ fetch.pc = "received"
    /\ ~StatusFailed(fetch.response)
    /\ ~HasErrorMessage(fetch.response)
    /\ KeyMissing(fetch.response, fetch.interval)
    /\ fetch' = [fetch EXCEPT !.pc = "raised",
                              !.raised = [type |-> "Exception",
                                          message |-> "Expected key not found in response"]]
    /\ UNCHANGED bt_vars

\* lines 51-76: the time series as a frame sorted by timestamp
ReturnFrame ==
    /\ fetch.pc = "received"
    /\ ~StatusFailed(fetch.response)
    /\ ~HasErrorMessage(fetch.response)
    /\ ~KeyMissing(fetch.response, fetch.interval)
    /\ fetch' = [fetch EXCEPT !.pc = "returned", !.returned = TRUE,
                              !.df = SortRows(fetch.response.rows)]
    /\ UNCHANGED bt_vars

NextFetch ==
    \/ GetIntradayData
    \/ RaiseKeyRequired
    \/ SendRequest
    \/ ReceiveResponse
    \/ RaiseStatus
    \/ RaiseErrorMessage
    \/ RaiseKeyNotFound
    \/ ReturnFrame

SpecFetch == InitFetch /\ [][NextFetch]_vars

-----------------------------------------------------------------------------
(* Properties of get_intraday_data *)

C10_RemoteMessages == {"API request failed with status code", "API returned an error"}
C10_SchemaMessage == "Expected key not found in response"

\* C10: a response with a status other than 200 or with an error message ends
\* the call in a remote error; a 200 response without error message and
\* without the interval's time series key ends it in the schema error, which
\* is another outcome; a call that failed returned no data and sent one
\* request, and only a response that is none of these returns data.
C10_FetchFailures ==
    /\ Len(fetch.requests) <= 1
    /\ (fetch.pc \in {"raised", "returned"} /\ fetch.requests # << >>) =>
          LET r == fetch.response
              remote == r.status # 200 \/ r.error_message
              schema == ~remote /\ r.series_key # fetch.interval
          IN  /\ remote => /\ fetch.pc = "raised"
                           /\ fetch.raised.message \in C10_RemoteMessages
              /\ schema => /\ fetch.pc = "raised"
                           /\ fetch.raised.message = C10_SchemaMessage
              /\ fetch.pc = "raised" => (~fetch.returned /\ fetch.df = << >>)

\* a 200 response without error message but with another interval's key ended
\* the call in the schema error
C10_Witness ==
    /\ fetch.pc = "raised"
    /\ fetch.response.status = 200
    /\ ~fetch.response.error_message
    /\ fetch.response.series_key \notin {"", fetch.interval}
    /\ fetch.response.rows # << >>
    /\ fetch.raised.message = C10_SchemaMessage

-----------------------------------------------------------------------------
(* Price-data provider: fetch_multiple_months (backtest_alpha_vantage.py) *)

\* most months a call asks for
MaxMonths == 24

\* range(1, 13) of the month loop ends before 13
MONTHS_PER_YEAR == 12

Months == 1..MaxMonths

\* the frame read from a slice's CSV: one row, older than the first batch's
SliceFrame == << 0 >>

\* pd.concat(all_data, ignore_index=True)
RECURSIVE Concat(_)
Concat(frames) == IF frames = << >> THEN << >> ELSE Head(frames) \o Concat(Tail(frames))

\* drop_duplicates(subset=['timestamp']): the first row of each timestamp stays
RECURSIVE DropDuplicates(_)
DropDuplicates(rows) ==
    IF rows = << >> THEN << >>
    ELSE LET init == DropDuplicates(SubSeq(rows, 1, Len(rows) - 1))
             last == rows[Len(rows)]
         IN  IF \E i \in DOMAIN init : init[i] = last THEN init ELSE Append(init, last)

\* lines 136-144
CombinedData(all_data) ==
    IF Len(all_data) > 1 THEN SortRows(DropDuplicates(Concat(all_data)))
    ELSE all_data[1]

\* slice_param = f"year{year}month{month}"
SliceParam(year, month) == [year |-> year, month |-> month]

\* range(1, (months // 12) + 1) is exhausted
YearsExhausted(year, months) == year > months \div MONTHS_PER_YEAR

\* the state of a fetch_multiple_months call around its get_intraday_data call
MonthsIdle ==
    FetchIdle @@ [mpc |-> "idle", months |-> 0, year |-> 0, month |-> 0,
                  all_data |-> << >>, slice_requests |-> << >>,
                  slice_status |-> 0, combined |-> << >>]

InitMonths ==
    /\ qqq_data = << >>
    /\ options_data = << >>
    /\ positions = << >>
    /\ trade_history = << >>
    /\ start_date = 0
    /\ end_date = 0
    /\ initial_capital = 0
    /\ account_value = 0
    /\ current_date = 0
    /\ results = << >>
    /\ pc = "idle"
    /\ error = ""
    /\ returns = << >>
    /\ fetch = MonthsIdle

\* the call fetch_multiple_months(symbol, interval, api_key, months), up to its
\* call get_intraday_data(symbol, interval, api_key, 'full') (lines 95-97)
FetchMultipleMonths ==
    /\ fetch.mpc = "idle"
    /\ \E i \in Intervals, key \in {"none", "KEY"}, m \in Months :
          fetch' = [MonthsIdle EXCEPT !.mpc = "first_batch", !.months = m,
                                      !.pc = "called", !.interval = i,
                                      !.api_key = key, !.output_size = "full"]
    /\ UNCHANGED bt_vars

\* an exception of get_intraday_data leaves fetch_multiple_months too
FirstBatchRaises ==
    /\ fetch.mpc = "first_batch"
    /\ fetch.pc = "raised"
    /\ fetch' = [fetch EXCEPT !.mpc = "raised"]
    /\ UNCHANGED bt_vars

\* lines 97-107: the first batch is appended and the slice loops are entered
EnterSliceLoop ==
    /\ fetch.mpc = "first_batch"
    /\ fetch.pc = "returned"
    /\ fetch.months > 1 /\ fetch.interval = "1min"
    /\ fetch' = [fetch EXCEPT !.mpc = "slices", !.all_data = << fetch.df >>,
                              !.year = 1, !.month = 1]
    /\ UNCHANGED bt_vars

\* lines 97-103: the first batch is appended and the condition of line 103 fails
SkipSliceLoop ==
    /\ fetch.mpc = "first_batch"
    /\ fetch.pc = "returned"
    /\ ~(fetch.months > 1 /\ fetch.interval = "1min")
    /\ fetch' = [fetch EXCEPT !.mpc = "combine", !.all_data = << fetch.df >>]
    /\ UNCHANGED bt_vars

\* line 107: the year loop is exhausted
SlicesDone ==
    /\ fetch.mpc = "slices"
    /\ YearsExhausted(fetch.year, fetch.months)
    /\ fetch' = [fetch EXCEPT !.mpc = "combine"]
    /\ UNCHANGED bt_vars

\* lines 108-110: the month loop is exhausted or left by `break`
NextYear ==
    /\ fetch.mpc = "slices"
    /\ ~YearsExhausted(fetch.year, fetch.months)
    /\ \/ fetch.month > MONTHS_PER_YEAR
       \/ (fetch.year - 1) * MONTHS_PER_YEAR + fetch.month > fetch.months
    /\ fetch' = [fetch EXCEPT !.year = @ + 1, !.month = 1]
    /\ UNCHANGED bt_vars

\* lines 112-123: requests.get for the slice of (year, month)
RequestSlice ==
    /\ fetch.mpc = "slices"
    /\ ~YearsExhausted(fetch.year, fetch.months)
    /\ fetch.month <= MONTHS_PER_YEAR
    /\ ~((fetch.year - 1) * MONTHS_PER_YEAR + fetch.month > fetch.months)
    /\ fetch' = [fetch EXCEPT !.mpc = "slice_awaiting",
                              !.slice_requests =
                                  Append(@, SliceParam(fetch.year, fetch.month))]
    /\ UNCHANGED bt_vars

\* the service answers the slice request
ReceiveSlice ==
    /\ fetch.mpc = "slice_awaiting"
    /\ \E st \in {HTTP_OK, 503} :
          fetch' = [fetch EXCEPT !.mpc = "slice_received", !.slice_status = st]
    /\ UNCHANGED bt_vars

\* lines 125-131 where pandas has a StringIO attribute: the CSV is appended
SliceAppended ==
    /\ fetch.mpc = "slice_received"
    /\ fetch.slice_status = HTTP_OK
    /\ fetch' = [fetch EXCEPT !.mpc = "slices", !.all_data = Append(@, SliceFrame),
                              !.month = @ + 1]
    /\ UNCHANGED bt_vars

\* line 127 where pandas has no StringIO attribute
SliceParseRaises ==
    /\ fetch.mpc = "slice_received"
    /\ fetch.slice_status = HTTP_OK
    /\ fetch' = [fetch EXCEPT !.mpc = "raised",
                              !.raised = [type |-> "AttributeError",
                                          message |-> "module has no attribute StringIO"]]
    /\ UNCHANGED bt_vars

\* lines 132-133: the failure is printed and the loop goes on
SliceFailed ==
    /\ fetch.mpc = "slice_received"
    /\ fetch.slice_status # HTTP_OK
    /\ fetch' = [fetch EXCEPT !.mpc = "slices", !.month = @ + 1]
    /\ UNCHANGED bt_vars

\* lines 135-144
ReturnCombined ==
    /\ fetch.mpc = "combine"
    /\ fetch' = [fetch EXCEPT !.mpc = "returned",
                              !.combined = CombinedData(fetch.all_data)]
    /\ UNCHANGED bt_vars

NextMonths ==
    \/ FetchMultipleMonths
    \/ RaiseKeyRequired
    \/ SendRequest
    \/ ReceiveResponse
    \/ RaiseStatus
    \/ RaiseErrorMessage
    \/ RaiseKeyNotFound
    \/ ReturnFrame
    \/ FirstBatchRaises
    \/ EnterSliceLoop
    \/ SkipSliceLoop
    \/ SlicesDone
    \/ NextYear
    \/ RequestSlice
    \/ ReceiveSlice
    \/ SliceAppended
    \/ SliceParseRaises
    \/ SliceFailed
    \/ ReturnCombined

SpecMonths == InitMonths /\ [][NextMonths]_vars

-----------------------------------------------------------------------------
(* Properties of fetch_multiple_months *)

\* the first m slices in the order year1month1, year1month2, ...
C17_FirstSlices(m) ==
    [k \in 1..m |-> SliceParam(((k - 1) \div MONTHS_PER_YEAR) + 1,
                               ((k - 1) % MONTHS_PER_YEAR) + 1)]

\* C17: a call with interval '1min' and months = m in 2..24 that has returned
\* has issued, after the request of the first batch, exactly the m slice
\* requests year1month1, year1month2, ... in this order.
C17_OneSlicePerMonth ==
    (/\ fetch.mpc = "returned"
     /\ fetch.interval = "1min"
     /\ fetch.months \in 2..24) =>
        /\ Len(fetch.requests) = 1
        /\ fetch.slice_requests = C17_FirstSlices(fetch.months)

\* the call of the usage example, months = 6, has returned without a slice request
C17_NoSliceForSixMonths ==
    /\ fetch.mpc = "returned"
    /\ fetch.interval = "1min"
    /\ fetch.months = 6
    /\ fetch.slice_requests = << >>

\* what the loops do issue: the slices of the whole years of m, in order
C17_WholeYearsOnly ==
    (fetch.mpc = "returned" /\ fetch.interval = "1min" /\ fetch.months > 1) =>
        fetch.slice_requests =
            C17_FirstSlices(MONTHS_PER_YEAR * (fetch.months \div MONTHS_PER_YEAR))

====
